---- MODULE Spec2Model ----
(***************************************************************************)
(* A model of SIEM Lite (src/app.py): the add_event ingestion handler, the *)
(* in-memory event list, the rate-limited background alert mailer and the  *)
(* read routes (index, /events, /export_csv).                              *)
(*                                                                         *)
(* Strings that the code inspects character by character (the source_ip    *)
(* form field, the lines of the threat feed file) are sequences of Unicode *)
(* code points: "a" is <<97>>, "A" is <<65>>, "#" is 35, the blank 32, the *)
(* tab 9.  Time is the wall clock in whole seconds.  Request handlers,     *)
(* mail workers and readers are threads; an action is one step a thread    *)
(* performs without another thread running in between: at most one access  *)
(* to the clock or to the data the threads share (events,                  *)
(* last_email_sent), together with the thread's own work around it.        *)
(***************************************************************************)
EXTENDS Integers, Sequences, FiniteSets, Bags, TLC

(***************************************************************************)
(* Bounds of the model.                                                    *)
(***************************************************************************)
StartTime == 2        \* the clock's reading when the process starts
MaxTime == 4          \* the clock stops ticking here
MaxCooldown == 2      \* the everyday values of ALERT_EMAIL_COOLDOWN
MaxEvents == 2        \* add_event requests accepted in one behaviour
MaxHandlers == 2      \* concurrent add_event request threads
MaxReads == 1         \* read requests (index, /events, /export_csv) served

\* ALERT_EMAIL_COOLDOWN (line 26) is any integer the environment gives; the
\* values taken here are 0..MaxCooldown and one that exceeds every reading
\* of the clock.
HugeCooldown == MaxTime + 1
Cooldowns == (0..MaxCooldown) \cup {HugeCooldown}

Handlers == 1..MaxHandlers
Readers == 1..1

(***************************************************************************)
(* Text helpers: str.strip() and str.startswith("#").                      *)
(***************************************************************************)
\* The code points str.strip() removes (those for which str.isspace() is
\* true): \t \n \v \f \r, the separators 28-31, the blank, NEL, the
\* no-break space and the Unicode spaces.
Whitespace ==
  (9..13) \cup (28..32) \cup {133, 160, 5760} \cup (8192..8202)
    \cup {8232, 8233, 8239, 8287, 12288}

RECURSIVE LStrip(_)
LStrip(s) == IF s # <<>> /\ Head(s) \in Whitespace THEN LStrip(Tail(s)) ELSE s

RECURSIVE RStrip(_)
RStrip(s) ==
  IF s # <<>> /\ s[Len(s)] \in Whitespace
  THEN RStrip(SubSeq(s, 1, Len(s) - 1))
  ELSE s

Strip(s) == RStrip(LStrip(s))

StartsWithHash(s) == s # <<>> /\ Head(s) = 35

(***************************************************************************)
(* The threat feed file (lines 44-53): absent, or a sequence of lines.     *)
(* LoadFeed is the loop of lines 45-50.                                    *)
(***************************************************************************)
NoFeedFile == [present |-> FALSE, lines |-> <<>>]
\* The lines "a", "#A" and " ".
FeedFileA == [present |-> TRUE, lines |-> << <<97>>, <<35, 65>>, <<32>> >>]
\* The lines "\tA " and "a".
FeedFileAB == [present |-> TRUE, lines |-> << <<9, 65, 32>>, <<97>> >>]

KeepsLine(line) == Strip(line) # <<>> /\ ~StartsWithHash(Strip(line))

LoadFeed(file) ==
  IF file.present
  THEN { Strip(file.lines[i]) :
           i \in { j \in 1..Len(file.lines) : KeepsLine(file.lines[j]) } }
  ELSE {}

(***************************************************************************)
(* Form inputs of POST /add_event.                                         *)
(***************************************************************************)
\* source_ip is "a", "\ta " or "A".
RawIps == { <<97>>, <<9, 97, 32>>, <<65>> }
Descriptions == { "scan" }

(***************************************************************************)
(* GeoIP (lines 31-39, 275-284).  A reader is a sequence holding at most   *)
(* the database; the database maps the addresses it knows to a city        *)
(* record whose names may be missing (None) or empty.  An optional value   *)
(* is a sequence of length 0 or 1.                                         *)
(***************************************************************************)
GeoDb ==
  [ip \in { <<97>>, <<65>> } |->
     IF ip = <<97>>
     THEN [country |-> <<"NL">>, city |-> <<>>, lat |-> <<52>>, lon |-> <<4>>]
     ELSE [country |-> <<"">>, city |-> <<"NYC">>, lat |-> <<40>>, lon |-> <<>>]]

NoReader == <<>>

\* Lines 279-280: `name or "Unknown"`; None and the empty name are falsy.
OrUnknown(name) ==
  IF name = <<>> \/ name[1] = "" THEN "Unknown" ELSE name[1]

GeoLookup(reader, ip) ==
  IF reader # <<>> /\ ip \in DOMAIN reader[1]
  THEN [country |-> OrUnknown(reader[1][ip].country),
        city    |-> OrUnknown(reader[1][ip].city),
        lat     |-> reader[1][ip].lat,
        lon     |-> reader[1][ip].lon]
  ELSE [country |-> "Unknown", city |-> "Unknown", lat |-> <<>>, lon |-> <<>>]

(***************************************************************************)
(* State.                                                                  *)
(*   SEND_EMAIL .. THREAT_FEED   module-level configuration (lines 14-53)  *)
(*   now                         the wall clock                            *)
(*   events, last_email_sent     the in-memory storage (lines 58-59)       *)
(*   handlers                    add_event request threads: where each is  *)
(*                               (pc), its event (ev) and, inside          *)
(*                               send_alert_email_async, the local `now`   *)
(*                               of line 99 (t)                            *)
(*   workers                     running _worker threads (lines 117-123):  *)
(*                               where each is (pc) and, between reading   *)
(*                               the clock and storing it on line 120, the *)
(*                               reading (t)                               *)
(*   reads, nreads               read request threads and how many began;  *)
(*                               a read's fields snap and fin are history: *)
(*                               the list when the read began and ended    *)
(* History, kept for stating properties (no code reads it):                *)
(*   decisions   one entry per call of send_alert_email_async: the         *)
(*               address, the event, the clock as line 99 read it, whether *)
(*               the ledger knew the address and the value line 100 read   *)
(*               from it, how many workers had finished by then, whether a *)
(*               worker was started                                        *)
(*   outcomes    one entry per _worker that finished: the decision that    *)
(*               started it, the address, what _send_email returned, the   *)
(*               clock (as line 120 read it after a success, as it stood   *)
(*               when a failed send returned), the ledger before and after *)
(*               the worker's last step                                    *)
(*   returned    the events of the add_event calls that returned (a bag)   *)
(***************************************************************************)
VARIABLES SEND_EMAIL, SMTP_USER, SMTP_PASS, ALERT_RECIPIENT,
          ALERT_EMAIL_COOLDOWN, geoip_reader, THREAT_FEED,
          now, events, last_email_sent, handlers, workers, reads, nreads,
          decisions, outcomes, returned

config == <<SEND_EMAIL, SMTP_USER, SMTP_PASS, ALERT_RECIPIENT,
            ALERT_EMAIL_COOLDOWN, geoip_reader, THREAT_FEED>>
history == <<decisions, outcomes, returned>>
vars == <<config, now, events, last_email_sent, handlers, workers, reads,
          nreads, history>>

\* The deployments considered: SMTP_USER, SMTP_PASS and ALERT_RECIPIENT as
\* the environment sets them, the GeoIP reader and the threat feed file.
Environments ==
  { [user |-> "user", pass |-> "pass", rcpt |-> "rcpt",
     geo |-> NoReader, feed |-> FeedFileA],
    [user |-> "user", pass |-> "pass", rcpt |-> "rcpt",
     geo |-> <<GeoDb>>, feed |-> FeedFileAB],
    [user |-> "user", pass |-> "pass", rcpt |-> "",
     geo |-> <<GeoDb>>, feed |-> FeedFileA],
    [user |-> "user", pass |-> "pass", rcpt |-> "rcpt",
     geo |-> NoReader, feed |-> NoFeedFile] }

NoEvent == <<>>
IdleHandler == [pc |-> "idle", ev |-> NoEvent, t |-> 0]
IdleRead == [pc |-> "idle", route |-> "", i |-> 0, seen |-> <<>>,
             out |-> <<>>, snap |-> <<>>, fin |-> <<>>]

Init ==
  /\ SEND_EMAIL \in BOOLEAN
  /\ \E env \in Environments :
       /\ SMTP_USER = env.user
       /\ SMTP_PASS = env.pass
       /\ ALERT_RECIPIENT = env.rcpt
       /\ geoip_reader = env.geo
       /\ THREAT_FEED = LoadFeed(env.feed)
  /\ ALERT_EMAIL_COOLDOWN \in Cooldowns
  /\ now = StartTime
  /\ events = <<>>
  /\ last_email_sent = [k \in {} |-> 0]
  /\ handlers = [h \in Handlers |-> IdleHandler]
  /\ workers = {}
  /\ reads = [r \in Readers |-> IdleRead]
  /\ nreads = 0
  /\ decisions = <<>>
  /\ outcomes = <<>>
  /\ returned = EmptyBag

(***************************************************************************)
(* The clock.                                                              *)
(***************************************************************************)
Tick ==
  /\ now < MaxTime
  /\ now' = now + 1
  /\ UNCHANGED <<config, events, last_email_sent, handlers, workers, reads,
                 nreads, history>>

(***************************************************************************)
(* add_event (lines 268-305).                                              *)
(***************************************************************************)
\* A variant of the threat check that compares without regard to case.
Lower(s) == [k \in DOMAIN s |-> IF s[k] \in 65..90 THEN s[k] + 32 ELSE s[k]]
IsThreatIgnoringCase(ip, feed) == \E f \in feed : Lower(f) = Lower(ip)

\* Line 287.
IsThreat(ip, feed) == ip \in feed

\* Lines 270-298: the event record built from the form and the lookups.
MakeEvent(description, raw_ip, t, reader, feed) ==
  LET source_ip == Strip(raw_ip)
      geo == GeoLookup(reader, source_ip)
  IN [timestamp |-> t,
      source_ip |-> source_ip,
      event     |-> description,
      country   |-> geo.country,
      city      |-> geo.city,
      lat       |-> geo.lat,
      lon       |-> geo.lon,
      is_threat |-> IsThreat(source_ip, feed)]

\* A variant of the append that writes over the last slot of a list that
\* is not empty, as an append that is not atomic may.
AppendEventOverLast(evs, ev) ==
  IF evs = <<>> THEN <<ev>> ELSE [evs EXCEPT ![Len(evs)] = ev]

\* A variant of the append that inserts at the front of the list.
AppendEventInFront(evs, ev) == <<ev>> \o evs

\* A variant of the append that skips an event the list already holds.
AppendEventOnce(evs, ev) ==
  IF \E i \in DOMAIN evs : evs[i] = ev THEN evs ELSE Append(evs, ev)

\* A variant of the append that leaves the list as it is, as a handler that
\* dispatched before it stored would find it.
AppendEventSkipped(evs, ev) == evs

\* Line 299: list.append.
AppendEvent(evs, ev) == Append(evs, ev)

InProgress == Cardinality({ h \in Handlers : handlers[h].pc # "idle" })

\* Lines 270-298; the clock is read on line 272.
AddEventBegin(h) ==
  /\ handlers[h].pc = "idle"
  /\ BagCardinality(returned) + InProgress < MaxEvents
  /\ \E description \in Descriptions, raw_ip \in RawIps :
       handlers' = [handlers EXCEPT ![h] =
                      [pc |-> "append",
                       ev |-> MakeEvent(description, raw_ip, now,
                                        geoip_reader, THREAT_FEED),
                       t  |-> 0]]
  /\ UNCHANGED <<config, now, events, last_email_sent, workers, reads,
                 nreads, history>>

\* Line 299.
AddEventAppend(h) ==
  /\ handlers[h].pc = "append"
  /\ events' = AppendEvent(events, handlers[h].ev)
  /\ handlers' = [handlers EXCEPT ![h].pc = "alert"]
  /\ UNCHANGED <<config, now, last_email_sent, workers, reads, nreads,
                 history>>

(***************************************************************************)
(* send_alert_email_async (lines 97-123).                                  *)
(***************************************************************************)
\* A variant of the ledger read that never finds an entry.
LastSentForgotten(ledger, ip) == 0

\* Line 100: last_email_sent.get(ip, 0).
LastSent(ledger, ip) == IF ip \in DOMAIN ledger THEN ledger[ip] ELSE 0

\* A variant of the cooldown test that still suppresses at exactly the
\* cooldown.
InCooldownInclusive(ledger, ip, t, cooldown) ==
  t - (IF ip \in DOMAIN ledger THEN ledger[ip] ELSE 0) <= cooldown

\* Line 101; t is the clock as line 99 read it.
InCooldown(ledger, ip, t, cooldown) == t - LastSent(ledger, ip) < cooldown

\* A variant of the guard of line 302 that forgets is_threat.
CallsDispatchForAny(ev, send_email) == send_email

\* A variant of the guard of line 302 that forgets SEND_EMAIL.
CallsDispatchWhenThreat(ev, send_email) == ev.is_threat

\* Line 302: whether add_event calls send_alert_email_async.
CallsDispatch(ev, send_email) == ev.is_threat /\ send_email

\* Lines 302-303 and 99: the guard and, when add_event makes the call, the
\* call's reading of the clock.
AddEventAlert(h) ==
  /\ handlers[h].pc = "alert"
  /\ handlers' = [handlers EXCEPT ![h] =
                    IF CallsDispatch(handlers[h].ev, SEND_EMAIL)
                    THEN [@ EXCEPT !.pc = "decide", !.t = now]
                    ELSE [@ EXCEPT !.pc = "return"]]
  /\ UNCHANGED <<config, now, events, last_email_sent, workers, reads,
                 nreads, history>>

\* A variant of the dispatch that runs _worker on the caller's own path
\* instead of starting a thread for it.
SendAlertEmailAsyncInline(h) ==
  LET ev == handlers[h].ev
      ip == ev.source_ip
      t == handlers[h].t
      last == IF ip \in DOMAIN last_email_sent THEN last_email_sent[ip] ELSE 0
      start == ~(t - last < ALERT_EMAIL_COOLDOWN)
      id == Len(decisions) + 1
  IN /\ handlers[h].pc = "decide"
     /\ decisions' = Append(decisions,
                            [ip |-> ip, event |-> ev, at |-> t,
                             known |-> ip \in DOMAIN last_email_sent,
                             last |-> last,
                             nout |-> Len(outcomes),
                             started |-> start])
     /\ \E smtp_ok \in BOOLEAN :
          LET ok == start /\ smtp_ok /\ SMTP_USER # "" /\ SMTP_PASS # ""
                      /\ ALERT_RECIPIENT # ""
          IN /\ last_email_sent' =
                  IF ok
                  THEN [k \in DOMAIN last_email_sent \cup {ip} |->
                          IF k = ip THEN now ELSE last_email_sent[k]]
                  ELSE last_email_sent
             /\ outcomes' =
                  IF start
                  THEN Append(outcomes,
                              [id |-> id, ip |-> ip, at |-> now, ok |-> ok,
                               before |-> last_email_sent,
                               after |-> last_email_sent'])
                  ELSE outcomes
     /\ handlers' = [handlers EXCEPT ![h] = [@ EXCEPT !.pc = "return",
                                                      !.t = 0]]
     /\ UNCHANGED <<config, now, events, workers, reads, nreads, returned>>

\* Lines 100-123: the ledger is read once (line 100) and compared with the
\* clock as line 99 read it; unless the call is skipped (lines 102-103) the
\* worker thread is started (lines 122-123), and runs from then on.
SendAlertEmailAsync(h) ==
  LET ev == handlers[h].ev
      ip == ev.source_ip
      t == handlers[h].t
      start == ~InCooldown(last_email_sent, ip, t, ALERT_EMAIL_COOLDOWN)
      id == Len(decisions) + 1
  IN /\ handlers[h].pc = "decide"
     /\ decisions' = Append(decisions,
                            [ip |-> ip, event |-> ev, at |-> t,
                             known |-> ip \in DOMAIN last_email_sent,
                             last |-> LastSent(last_email_sent, ip),
                             nout |-> Len(outcomes),
                             started |-> start])
     /\ workers' = IF start
                   THEN workers \cup {[id |-> id, ip |-> ip, event |-> ev,
                                       pc |-> "send", t |-> 0]}
                   ELSE workers
     /\ handlers' = [handlers EXCEPT ![h] = [@ EXCEPT !.pc = "return",
                                                      !.t = 0]]
     /\ UNCHANGED <<config, now, events, last_email_sent, reads, nreads,
                    outcomes, returned>>

\* Line 305: add_event returns.
AddEventReturn(h) ==
  /\ handlers[h].pc = "return"
  /\ returned' = returned (+) SetToBag({handlers[h].ev})
  /\ handlers' = [handlers EXCEPT ![h] = IdleHandler]
  /\ UNCHANGED <<config, now, events, last_email_sent, workers, reads,
                 nreads, decisions, outcomes>>

(***************************************************************************)
(* _send_email (lines 64-95) and _worker (lines 117-120).                  *)
(***************************************************************************)
\* The value _send_email returns; smtp_ok: the SMTP session of lines 82-92
\* raised nothing.
SendEmail(send_email, user, pass, recipient, smtp_ok) ==
  IF ~send_email THEN FALSE
  ELSE IF user = "" \/ pass = "" \/ recipient = "" THEN FALSE
  ELSE smtp_ok

\* The record of a worker that has finished.
Outcome(w, ok, t, before, after) ==
  [id |-> w.id, ip |-> w.ip, at |-> t, ok |-> ok,
   before |-> before, after |-> after]

\* A variant of the worker that records the send whatever its outcome.
WorkerSendRecordingFailure(w) ==
  /\ w \in workers
  /\ w.pc = "send"
  /\ \E smtp_ok \in BOOLEAN :
       LET ok == smtp_ok /\ SEND_EMAIL /\ SMTP_USER # "" /\ SMTP_PASS # ""
                   /\ ALERT_RECIPIENT # ""
       IN IF ok
          THEN /\ workers' = (workers \ {w}) \cup {[w EXCEPT !.pc = "clock"]}
               /\ UNCHANGED <<last_email_sent, outcomes>>
          ELSE /\ workers' = workers \ {w}
               /\ last_email_sent' =
                    [k \in DOMAIN last_email_sent \cup {w.ip} |->
                       IF k = w.ip THEN now ELSE last_email_sent[k]]
               /\ outcomes' = Append(outcomes,
                                     [id |-> w.id, ip |-> w.ip, at |-> now,
                                      ok |-> FALSE,
                                      before |-> last_email_sent,
                                      after |-> last_email_sent'])
  /\ UNCHANGED <<config, now, events, handlers, reads, nreads, decisions,
                 returned>>

\* A variant of the worker that stays to try again when the send failed.
WorkerSendRetrying(w) ==
  /\ w \in workers
  /\ w.pc = "send"
  /\ Len(outcomes) < MaxEvents
  /\ \E smtp_ok \in BOOLEAN :
       LET ok == smtp_ok /\ SEND_EMAIL /\ SMTP_USER # "" /\ SMTP_PASS # ""
                   /\ ALERT_RECIPIENT # ""
       IN IF ok
          THEN /\ workers' = (workers \ {w}) \cup {[w EXCEPT !.pc = "clock"]}
               /\ UNCHANGED outcomes
          ELSE /\ workers' = workers
               /\ outcomes' = Append(outcomes,
                                     [id |-> w.id, ip |-> w.ip, at |-> now,
                                      ok |-> FALSE,
                                      before |-> last_email_sent,
                                      after |-> last_email_sent])
  /\ UNCHANGED <<config, now, events, last_email_sent, handlers, reads,
                 nreads, decisions, returned>>

\* Lines 118-119: the call of _send_email, until it returns.  When it
\* returns False the worker ends and the ledger is left alone.
WorkerSend(w) ==
  /\ w \in workers
  /\ w.pc = "send"
  /\ \E smtp_ok \in BOOLEAN :
       LET ok == SendEmail(SEND_EMAIL, SMTP_USER, SMTP_PASS, ALERT_RECIPIENT,
                           smtp_ok)
       IN IF ok
          THEN /\ workers' = (workers \ {w}) \cup {[w EXCEPT !.pc = "clock"]}
               /\ UNCHANGED outcomes
          ELSE /\ workers' = workers \ {w}
               /\ outcomes' = Append(outcomes,
                                     Outcome(w, FALSE, now, last_email_sent,
                                             last_email_sent))
  /\ UNCHANGED <<config, now, events, last_email_sent, handlers, reads,
                 nreads, decisions, returned>>

\* Line 120, right-hand side: time.time().
WorkerClock(w) ==
  /\ w \in workers
  /\ w.pc = "clock"
  /\ workers' = (workers \ {w}) \cup {[w EXCEPT !.pc = "store", !.t = now]}
  /\ UNCHANGED <<config, now, events, last_email_sent, handlers, reads,
                 nreads, history>>

\* A variant of the store that replaces the whole ledger by the one entry.
RecordSendAlone(ledger, ip, t) == [k \in {ip} |-> t]

\* Line 120, the assignment: last_email_sent[ip] = <the reading>.
RecordSend(ledger, ip, t) ==
  [k \in DOMAIN ledger \cup {ip} |-> IF k = ip THEN t ELSE ledger[k]]

\* Line 120, the store of the reading taken; the worker ends.
WorkerStore(w) ==
  /\ w \in workers
  /\ w.pc = "store"
  /\ last_email_sent' = RecordSend(last_email_sent, w.ip, w.t)
  /\ outcomes' = Append(outcomes,
                        Outcome(w, TRUE, w.t, last_email_sent,
                                last_email_sent'))
  /\ workers' = workers \ {w}
  /\ UNCHANGED <<config, now, events, handlers, reads, nreads, decisions,
                 returned>>

(***************************************************************************)
(* The read routes: index (259-262), get_events (264-266) and export_csv   *)
(* (308-318).  Each walks the module-level list `events` itself, element   *)
(* by element, as a Python list iterator does: the next element is         *)
(* events[i] as long as i is below the list's current length.              *)
(***************************************************************************)
Routes == { "index", "events", "export_csv" }

\* Whether the route keeps the element: `if e.get("is_threat")` on lines 261
\* and 310; jsonify(events) on line 266 keeps every element.
Keeps(route, e) == route = "events" \/ e.is_threat

\* A variant of the walk that puts each element kept in front.
CollectInFront(route, seen, e) ==
  IF route = "events" \/ e.is_threat THEN <<e>> \o seen ELSE seen

\* One step of the walk: the elements kept so far, with e taken into account.
Collect(route, seen, e) == IF Keeps(route, e) THEN Append(seen, e) ELSE seen

\* Lines 313-315: the header row and one row for each suspicious event.
CsvHeader == <<"Timestamp", "Source IP", "Event", "Country", "City", "Status">>

\* A variant of the row with the country and the city swapped.
CsvRowSwapped(e) ==
  <<e.timestamp, e.source_ip, e.event, e.city, e.country, "Suspicious">>

CsvRow(e) ==
  <<e.timestamp, e.source_ip, e.event, e.country, e.city, "Suspicious">>

CsvRows(suspicious) ==
  <<CsvHeader>> \o [k \in 1..Len(suspicious) |-> CsvRow(suspicious[k])]

\* What the route answers with once the walk is over.
Respond(route, seen) ==
  CASE route = "index"      -> <<Len(seen)>>
    [] route = "events"     -> seen
    [] route = "export_csv" -> CsvRows(seen)

ReadBegin(r) ==
  /\ reads[r].pc \in {"idle", "done"}
  /\ nreads < MaxReads
  /\ nreads' = nreads + 1
  /\ \E route \in Routes :
       reads' = [reads EXCEPT ![r] =
                   [pc |-> "walk", route |-> route, i |-> 0, seen |-> <<>>,
                    out |-> <<>>, snap |-> events, fin |-> <<>>]]
  /\ UNCHANGED <<config, now, events, last_email_sent, handlers, workers,
                 history>>

ReadStep(r) ==
  /\ reads[r].pc = "walk"
  /\ reads[r].i < Len(events)
  /\ reads' = [reads EXCEPT
                 ![r].i = @ + 1,
                 ![r].seen = Collect(reads[r].route, @,
                                     events[reads[r].i + 1])]
  /\ UNCHANGED <<config, now, events, last_email_sent, handlers, workers,
                 nreads, history>>

ReadFinish(r) ==
  /\ reads[r].pc = "walk"
  /\ reads[r].i >= Len(events)
  /\ reads' = [reads EXCEPT
                 ![r].pc = "done",
                 ![r].fin = events,
                 ![r].out = Respond(reads[r].route, reads[r].seen)]
  /\ UNCHANGED <<config, now, events, last_email_sent, handlers, workers,
                 nreads, history>>

(***************************************************************************)
(* The system.                                                             *)
(***************************************************************************)
Next ==
  \/ Tick
  \/ \E h \in Handlers : AddEventBegin(h)
  \/ \E h \in Handlers : AddEventAppend(h)
  \/ \E h \in Handlers : AddEventAlert(h)
  \/ \E h \in Handlers : SendAlertEmailAsync(h)
  \/ \E h \in Handlers : AddEventReturn(h)
  \/ \E w \in workers : WorkerSend(w)
  \/ \E w \in workers : WorkerClock(w)
  \/ \E w \in workers : WorkerStore(w)
  \/ \E r \in Readers : ReadBegin(r)
  \/ \E r \in Readers : ReadStep(r)
  \/ \E r \in Readers : ReadFinish(r)

Spec == Init /\ [][Next]_vars

(***************************************************************************)
(* The alerting pipeline alone: ingestion, the mail workers and the clock. *)
(* The read routes change nothing but their own threads, so leaving them   *)
(* out removes no behaviour of the variables kept.                         *)
(***************************************************************************)
NextAlert ==
  \/ Tick
  \/ \E h \in Handlers : AddEventBegin(h)
  \/ \E h \in Handlers : AddEventAppend(h)
  \/ \E h \in Handlers : AddEventAlert(h)
  \/ \E h \in Handlers : SendAlertEmailAsync(h)
  \/ \E h \in Handlers : AddEventReturn(h)
  \/ \E w \in workers : WorkerSend(w)
  \/ \E w \in workers : WorkerClock(w)
  \/ \E w \in workers : WorkerStore(w)

SpecAlert == Init /\ [][NextAlert]_vars

(***************************************************************************)
(* The event store alone: ingestion and the read routes, with alerting     *)
(* switched off (SEND_EMAIL unset, the default of line 18), so that the    *)
(* guard of line 302 never lets add_event call send_alert_email_async.     *)
(* The clock stands still: these are the interleavings of handlers and     *)
(* readers within one second.                                              *)
(***************************************************************************)
InitStore ==
  Init /\ ~SEND_EMAIL /\ ALERT_EMAIL_COOLDOWN = 0 /\ ALERT_RECIPIENT # ""

NextStore ==
  \/ \E h \in Handlers : AddEventBegin(h)
  \/ \E h \in Handlers : AddEventAppend(h)
  \/ \E h \in Handlers : AddEventAlert(h)
  \/ \E h \in Handlers : AddEventReturn(h)
  \/ \E r \in Readers : ReadBegin(r)
  \/ \E r \in Readers : ReadStep(r)
  \/ \E r \in Readers : ReadFinish(r)

SpecStore == InitStore /\ [][NextStore]_vars

(***************************************************************************)
(* Every kind of thread together (handlers, mail workers, readers) in one  *)
(* deployment: alerting on, complete mail settings, the feed of one        *)
(* address, no GeoIP database, and a cooldown of zero (every threat event  *)
(* starts a worker) or above the clock (none does).  The clock stands still: these are the interleavings   *)
(* of the threads within one second.                                       *)
(***************************************************************************)
InitTogether ==
  /\ Init
  /\ SEND_EMAIL
  /\ ALERT_RECIPIENT # ""
  /\ geoip_reader = NoReader
  /\ THREAT_FEED = LoadFeed(FeedFileA)
  /\ ALERT_EMAIL_COOLDOWN \in {0, HugeCooldown}

NextTogether ==
  \/ \E h \in Handlers : AddEventBegin(h)
  \/ \E h \in Handlers : AddEventAppend(h)
  \/ \E h \in Handlers : AddEventAlert(h)
  \/ \E h \in Handlers : SendAlertEmailAsync(h)
  \/ \E h \in Handlers : AddEventReturn(h)
  \/ \E w \in workers : WorkerSend(w)
  \/ \E w \in workers : WorkerClock(w)
  \/ \E w \in workers : WorkerStore(w)
  \/ \E r \in Readers : ReadBegin(r)
  \/ \E r \in Readers : ReadStep(r)
  \/ \E r \in Readers : ReadFinish(r)

SpecTogether == InitTogether /\ [][NextTogether]_vars

(***************************************************************************)
(* Vocabulary of the properties.                                           *)
(***************************************************************************)
Dec == DOMAIN decisions
Out == DOMAIN outcomes

\* Two dispatch calls for one address, the second at a later reading of the
\* clock.
SameAddressLater(i, j) ==
  /\ i < j
  /\ decisions[i].ip = decisions[j].ip
  /\ decisions[i].at < decisions[j].at

\* The worker that call i started had finished with success when call j
\* was made.
SucceededBefore(i, j) ==
  \E k \in 1..decisions[j].nout : outcomes[k].id = i /\ outcomes[k].ok

\* When call j read the ledger, the entry of its address was the one the
\* worker of call i had stored: that worker's success is the last recorded
\* for the address by then.
RecordedLastBefore(i, j) ==
  \E k \in 1..decisions[j].nout :
    /\ outcomes[k].id = i /\ outcomes[k].ok
    /\ \A l \in 1..decisions[j].nout :
         (outcomes[l].ok /\ outcomes[l].ip = decisions[j].ip) => l <= k

\* The worker that call i started has finished with success.
Succeeded(i) == \E k \in Out : outcomes[k].id = i /\ outcomes[k].ok

\* The successful sends for the address of call j that had finished when
\* call j was made.
SuccessesBefore(j) ==
  { k \in 1..decisions[j].nout :
      outcomes[k].ip = decisions[j].ip /\ outcomes[k].ok }

(***************************************************************************)
(* C1 as stated: with a cooldown C > 0, of two threat events for the same  *)
(* address dispatched at t1 < t2 with t2 - t1 < C, the first starts a send *)
(* and the second is suppressed.                                           *)
(***************************************************************************)
C1_AsStated ==
  \A i, j \in Dec :
    (SameAddressLater(i, j)
       /\ decisions[j].at - decisions[i].at < ALERT_EMAIL_COOLDOWN)
    => (decisions[i].started /\ ~decisions[j].started)

(***************************************************************************)
(* C1, amended: with a cooldown C > 0, of two threat events for the same   *)
(* address dispatched at t1 < t2 with t2 - t1 < C, where the first event's *)
(* send had succeeded and the entry it stored was the one last_email_sent  *)
(* held for the address when the second event's call read it, exactly one  *)
(* send is attempted for the pair: the first started one and the second's  *)
(* call of send_alert_email_async starts none.                             *)
(***************************************************************************)
C1_SuppressedAfterSuccess ==
  \A i, j \in Dec :
    (SameAddressLater(i, j)
       /\ decisions[j].at - decisions[i].at < ALERT_EMAIL_COOLDOWN
       /\ RecordedLastBefore(i, j))
    => (decisions[i].started /\ ~decisions[j].started)

C1_Witness ==
  \E i, j \in Dec :
    /\ SameAddressLater(i, j)
    /\ decisions[j].at - decisions[i].at < ALERT_EMAIL_COOLDOWN
    /\ RecordedLastBefore(i, j)
    /\ ~decisions[j].started

(***************************************************************************)
(* C2 as stated: any two successful sends for one address lie at least     *)
(* ALERT_EMAIL_COOLDOWN seconds apart.                                     *)
(***************************************************************************)
C2_SuccessesApart ==
  \A k, l \in Out :
    (k < l /\ outcomes[k].ip = outcomes[l].ip
       /\ outcomes[k].ok /\ outcomes[l].ok)
    => outcomes[l].at - outcomes[k].at >= ALERT_EMAIL_COOLDOWN

(***************************************************************************)
(* C3: a send that fails leaves last_email_sent exactly as it was, and a   *)
(* threat event for that address dispatched at any time after the failure *)
(* starts a send, unless the ledger holds a success for the address that   *)
(* is less than the cooldown old.                                          *)
(***************************************************************************)
FailedBefore(j) ==
  \E k \in 1..decisions[j].nout :
    outcomes[k].ip = decisions[j].ip /\ ~outcomes[k].ok

RecentSuccessRecorded(j) ==
  /\ decisions[j].known
  /\ decisions[j].at - decisions[j].last < ALERT_EMAIL_COOLDOWN

C3_FailureKeepsEligible ==
  /\ \A k \in Out : ~outcomes[k].ok => outcomes[k].after = outcomes[k].before
  /\ \A j \in Dec :
       (FailedBefore(j) /\ ~RecentSuccessRecorded(j)) => decisions[j].started

\* A send failed and, at the same reading of the clock, the next event for
\* the address started another one.
C3_Witness ==
  \E j \in Dec, k \in Out :
    /\ k <= decisions[j].nout
    /\ outcomes[k].ip = decisions[j].ip
    /\ ~outcomes[k].ok
    /\ outcomes[k].at = decisions[j].at
    /\ decisions[j].started

(***************************************************************************)
(* C4 as stated: when a threat event dispatched at t1 led to a successful  *)
(* send, a threat event for the same address dispatched at t2 with         *)
(* t2 - t1 > ALERT_EMAIL_COOLDOWN starts a send too, however long the      *)
(* first send took.                                                        *)
(***************************************************************************)
C4_AsStated ==
  \A i, j \in Dec :
    (SameAddressLater(i, j) /\ Succeeded(i)
       /\ decisions[j].at - decisions[i].at > ALERT_EMAIL_COOLDOWN)
    => decisions[j].started

(***************************************************************************)
(* C4, amended: when a threat event led to a successful send, a threat     *)
(* event for the same address dispatched at least ALERT_EMAIL_COOLDOWN     *)
(* seconds after every successful send for the address finished (the       *)
(* cooldown runs from the moment a send completes, not from t1) starts a   *)
(* send too.                                                               *)
(***************************************************************************)
C4_StartsAfterCooldown ==
  \A j \in Dec :
    (/\ SuccessesBefore(j) # {}
     /\ \A k \in SuccessesBefore(j) :
          decisions[j].at - outcomes[k].at >= ALERT_EMAIL_COOLDOWN)
    => decisions[j].started

C4_Witness ==
  \E i, j \in Dec :
    /\ SameAddressLater(i, j)
    /\ SucceededBefore(i, j)
    /\ ALERT_EMAIL_COOLDOWN > 0
    /\ decisions[j].at - decisions[i].at > ALERT_EMAIL_COOLDOWN
    /\ \A k \in SuccessesBefore(j) :
         decisions[j].at - outcomes[k].at >= ALERT_EMAIL_COOLDOWN
    /\ decisions[j].started

(***************************************************************************)
(* C5 as stated: a threat event for an address that last_email_sent does   *)
(* not hold starts a send, whatever the cooldown and the time.             *)
(***************************************************************************)
C5_UnknownAddressStarts ==
  \A j \in Dec : ~decisions[j].known => decisions[j].started

(***************************************************************************)
(* C6: every stored event has is_threat true exactly when its source_ip,   *)
(* character for character, is an entry of THREAT_FEED.                    *)
(***************************************************************************)
C6_ThreatIffInFeed ==
  \A i \in DOMAIN events :
    events[i].is_threat <=> (events[i].source_ip \in THREAT_FEED)

\* The feed holds "a" and not "A"; both were ingested and only "a" is a
\* threat.
C6_Witness ==
  /\ <<97>> \in THREAT_FEED
  /\ <<65>> \notin THREAT_FEED
  /\ \E i, j \in DOMAIN events :
       /\ events[i].source_ip = <<97>> /\ events[i].is_threat
       /\ events[j].source_ip = <<65>> /\ ~events[j].is_threat

(***************************************************************************)
(* C7: an address that is not in THREAT_FEED is stored with is_threat      *)
(* false and never reaches send_alert_email_async: no dispatch call, no    *)
(* worker, no finished send and no ledger entry ever names it.             *)
(***************************************************************************)
C7_NonThreatNeverDispatched ==
  /\ \A i \in DOMAIN events :
       events[i].source_ip \notin THREAT_FEED => ~events[i].is_threat
  /\ \A j \in Dec : decisions[j].ip \in THREAT_FEED
  /\ \A w \in workers : w.ip \in THREAT_FEED
  /\ \A k \in Out : outcomes[k].ip \in THREAT_FEED
  /\ DOMAIN last_email_sent \subseteq THREAT_FEED

\* With alerting on, an add_event call for an address outside the feed has
\* returned, and so has one for an address of the feed, which was dispatched.
C7_Witness ==
  /\ SEND_EMAIL
  /\ \E ev \in BagToSet(returned) : ev.source_ip \notin THREAT_FEED
  /\ Dec # {}

(***************************************************************************)
(* C8: when add_event calls with pairwise distinct addresses, overlapping  *)
(* or not, have all returned, the list holds exactly one event per call:   *)
(* as many events as calls, each call's event once and whole, and nothing  *)
(* else.                                                                   *)
(***************************************************************************)
AllReturned == \A h \in Handlers : handlers[h].pc = "idle"

DistinctAddresses ==
  \A e1, e2 \in BagToSet(returned) :
    /\ returned[e1] = 1
    /\ e1 # e2 => e1.source_ip # e2.source_ip

C8_OneEventPerCall ==
  (AllReturned /\ DistinctAddresses) =>
    /\ Len(events) = BagCardinality(returned)
    /\ \A ev \in BagToSet(returned) :
         Cardinality({ i \in DOMAIN events : events[i] = ev }) = 1
    /\ \A i \in DOMAIN events : events[i] \in BagToSet(returned)

\* Two calls with distinct addresses have returned, and they overlapped: the
\* one that read the clock first appended second.
C8_Witness ==
  /\ AllReturned
  /\ DistinctAddresses
  /\ Len(events) = 2
  /\ events[1].source_ip # events[2].source_ip
  /\ events[1].timestamp > events[2].timestamp

(***************************************************************************)
(* C9: a read that has finished answers with the list as it stood when the *)
(* read finished: /events with all of it in insertion order, the filtered  *)
(* reads (index, /export_csv) with exactly the events whose is_threat is   *)
(* true, each once and in the order they have in the list.                 *)
(***************************************************************************)
IsThreatEvent(e) == e.is_threat
ThreatsOf(evs) == SelectSeq(evs, IsThreatEvent)

Finished(r) == reads[r].pc = "done"

C9_ReadsInOrder ==
  \A r \in Readers :
    Finished(r) =>
      /\ reads[r].route = "events" => reads[r].out = reads[r].fin
      /\ reads[r].route # "events" => reads[r].seen = ThreatsOf(reads[r].fin)
      /\ reads[r].route = "index" =>
           reads[r].out = <<Len(ThreatsOf(reads[r].fin))>>

\* A filtered read has finished over a list of a threat and a non-threat.
C9_Witness ==
  \E r \in Readers :
    /\ Finished(r)
    /\ reads[r].route = "export_csv"
    /\ Len(reads[r].fin) = 2
    /\ Len(reads[r].seen) = 1

(***************************************************************************)
(* C10 as stated: a read answers with the list as it stood when the read   *)
(* began; an event appended after that is not in the answer.               *)
(***************************************************************************)
C10_ReadIsSnapshot ==
  \A r \in Readers :
    Finished(r) =>
      /\ reads[r].route = "events" => reads[r].out = reads[r].snap
      /\ reads[r].route # "events" => reads[r].seen = ThreatsOf(reads[r].snap)

(***************************************************************************)
(* C11: ingestion never waits on the send.  A handler that has stored its  *)
(* event can always take its next step (the guard, the dispatch call, the  *)
(* return), whatever workers are running and however long they run; and a  *)
(* step in which a send finishes or the ledger is written is never a       *)
(* handler's step: it changes no handler, stores nothing and returns       *)
(* nothing.                                                                *)
(***************************************************************************)
CanAlwaysReturn ==
  \A h \in Handlers :
    /\ handlers[h].pc = "alert" => ENABLED AddEventAlert(h)
    /\ handlers[h].pc = "decide" => ENABLED SendAlertEmailAsync(h)
    /\ handlers[h].pc = "return" => ENABLED AddEventReturn(h)

SendOffCallerPath ==
  (outcomes' # outcomes \/ last_email_sent' # last_email_sent)
    => (handlers' = handlers /\ events' = events /\ returned' = returned)

C11_IngestNeverWaits == []CanAlwaysReturn /\ [][SendOffCallerPath]_vars

\* A call that started a send has stored its event and returned, the clock
\* has moved on, and the send is still running.
C11_Witness ==
  \E w \in workers :
    /\ decisions[w.id].at < now
    /\ \E i \in DOMAIN events : events[i] = w.event
    /\ BagIn(w.event, returned)
    /\ AllReturned

(***************************************************************************)
(* C12: with SEND_EMAIL off, ingestion does nothing for alerting, whether  *)
(* the event is a threat or not: send_alert_email_async is never called,   *)
(* no worker runs, no send finishes and last_email_sent stays as it began  *)
(* (empty); every call that returned has its event in the list, with       *)
(* is_threat telling whether its address is in THREAT_FEED.                *)
(***************************************************************************)
Stored(ev) == \E i \in DOMAIN events : events[i] = ev

C12_DisabledIsNoOp ==
  ~SEND_EMAIL =>
    /\ decisions = <<>>
    /\ workers = {}
    /\ outcomes = <<>>
    /\ DOMAIN last_email_sent = {}
    /\ \A ev \in BagToSet(returned) :
         Stored(ev) /\ (ev.is_threat <=> ev.source_ip \in THREAT_FEED)

\* With SEND_EMAIL off, a threat and a non-threat have been ingested.
C12_Witness ==
  /\ ~SEND_EMAIL
  /\ \E e1, e2 \in BagToSet(returned) : e1.is_threat /\ ~e2.is_threat

(***************************************************************************)
(* C13: last_email_sent changes only when a worker's send succeeded.  The  *)
(* ledger starts empty; each finished worker found it as the worker before *)
(* left it (so nothing else, and no dispatch call, wrote in between); a    *)
(* failed send left it as it was; a successful send set the entry of its   *)
(* own address to its reading of the clock and left the others; no entry is *)
(* ever removed; and the ledger now is as the last worker left it.         *)
(***************************************************************************)
EmptyLedger == [k \in {} |-> 0]

LedgerBefore(k) == IF k = 1 THEN EmptyLedger ELSE outcomes[k - 1].after

WroteOwnEntry(o) ==
  /\ DOMAIN o.after = DOMAIN o.before \cup {o.ip}
  /\ o.after[o.ip] = o.at
  /\ \A a \in DOMAIN o.before : a # o.ip => o.after[a] = o.before[a]

C13_LedgerOnlyOnSuccess ==
  /\ \A k \in Out :
       /\ outcomes[k].before = LedgerBefore(k)
       /\ outcomes[k].id \in Dec
       /\ decisions[outcomes[k].id].started
       /\ decisions[outcomes[k].id].ip = outcomes[k].ip
       /\ ~outcomes[k].ok => outcomes[k].after = outcomes[k].before
       /\ outcomes[k].ok => WroteOwnEntry(outcomes[k])
  /\ last_email_sent = LedgerBefore(Len(outcomes) + 1)

\* A successful send wrote an entry, and a later call for the address was
\* suppressed and left the entry as it found it.
C13_Witness ==
  \E j \in Dec :
    /\ decisions[j].known
    /\ ~decisions[j].started
    /\ decisions[j].ip \in DOMAIN last_email_sent
    /\ last_email_sent[decisions[j].ip] = decisions[j].last

(***************************************************************************)
(* C14: the event list only grows at its end.  In every step, whichever    *)
(* thread takes it (a handler, a reader, a mail worker whose send succeeds *)
(* or fails), the list before the step is a prefix of the list after it:   *)
(* no stored event is changed, moved or removed.                           *)
(***************************************************************************)
IsPrefix(s, t) == Len(s) <= Len(t) /\ SubSeq(t, 1, Len(s)) = s

C14_AppendOnly == [][IsPrefix(events, events')]_vars

\* Two events are stored, a read has finished, and one send succeeded and
\* another failed.
C14_Witness ==
  /\ Len(events) = 2
  /\ \E r \in Readers : Finished(r) /\ reads[r].fin # <<>>
  /\ \E k, l \in Out : outcomes[k].ok /\ ~outcomes[l].ok

(***************************************************************************)
(* C15 as stated: two add_event calls with the same description and the    *)
(* same source_ip store two events whose timestamps differ.  Two stored    *)
(* events count as coming from identical form values when their            *)
(* description and address agree and only one form value yields that       *)
(* address.                                                                *)
(***************************************************************************)
FormValuesOf(ip) == { raw \in RawIps : Strip(raw) = ip }

FromIdenticalCalls(i, j) ==
  /\ i < j
  /\ events[i].event = events[j].event
  /\ events[i].source_ip = events[j].source_ip
  /\ Cardinality(FormValuesOf(events[i].source_ip)) = 1

C15_AsStated ==
  \A i, j \in DOMAIN events :
    FromIdenticalCalls(i, j) => events[i].timestamp # events[j].timestamp

(***************************************************************************)
(* C15, amended: two add_event calls with the same description and         *)
(* source_ip store two events (no deduplication): once the calls have      *)
(* returned the list holds each event as many times as calls produced it.  *)
(* Their timestamps differ only when the calls read the clock in different *)
(* seconds; two calls within one second store two equal records.           *)
(***************************************************************************)
TimesStored(ev) == Cardinality({ i \in DOMAIN events : events[i] = ev })

C15_NoDeduplication ==
  AllReturned =>
    /\ Len(events) = BagCardinality(returned)
    /\ \A ev \in BagToSet(returned) : TimesStored(ev) = CopiesIn(ev, returned)

\* Two calls within one second have returned and the list holds their two
\* equal records.
C15_Witness ==
  /\ AllReturned
  /\ Len(events) = 2
  /\ events[1] = events[2]
  /\ CopiesIn(events[1], returned) = 2

(***************************************************************************)
(* C16: /export_csv answers with the header row Timestamp, Source IP,      *)
(* Event, Country, City, Status, followed by one row for each threat event *)
(* of the list (as it stood when the export finished), in list order, with *)
(* the event's fields in the header's order and the status "Suspicious";   *)
(* events that are not threats give no row, so there are 1 + (number of    *)
(* threat events) rows.                                                    *)
(***************************************************************************)
C16_CsvRowsOfThreats ==
  \A r \in Readers :
    (Finished(r) /\ reads[r].route = "export_csv") =>
      LET threats == ThreatsOf(reads[r].fin)
          rows == reads[r].out
      IN /\ Len(rows) = 1 + Len(threats)
         /\ rows[1] = <<"Timestamp", "Source IP", "Event", "Country",
                        "City", "Status">>
         /\ \A k \in 1..Len(threats) :
              rows[k + 1] = <<threats[k].timestamp, threats[k].source_ip,
                              threats[k].event, threats[k].country,
                              threats[k].city, "Suspicious">>

\* An export over a list of a threat and a non-threat: a header and one row.
C16_Witness ==
  \E r \in Readers :
    /\ Finished(r)
    /\ reads[r].route = "export_csv"
    /\ \E i, j \in DOMAIN reads[r].fin :
         reads[r].fin[i].is_threat /\ ~reads[r].fin[j].is_threat
    /\ Len(reads[r].out) = 2

(***************************************************************************)
(* C17: a failed send is not tried again.  The send attempts are the       *)
(* workers running and the workers finished; each was started by one       *)
(* dispatch call that decided to send, each such call has exactly one, a   *)
(* worker finishes once whatever the outcome, and there are never more     *)
(* dispatch calls, hence attempts, than threat events stored.              *)
(***************************************************************************)
StartedIds == { j \in Dec : decisions[j].started }
FinishedIds == { outcomes[k].id : k \in Out }
RunningIds == { w.id : w \in workers }

C17_NoRetry ==
  /\ Cardinality(RunningIds) = Cardinality(workers)
  /\ Cardinality(FinishedIds) = Len(outcomes)
  /\ RunningIds \cap FinishedIds = {}
  /\ RunningIds \cup FinishedIds = StartedIds
  /\ Cardinality(StartedIds) <= Len(decisions)
  /\ Len(decisions) <= Len(ThreatsOf(events))

\* A send failed, the clock moved on, no worker is running and the call
\* that started the send has returned.
C17_Witness ==
  \E k \in Out :
    /\ ~outcomes[k].ok
    /\ outcomes[k].at < now
    /\ workers = {}
    /\ AllReturned
    /\ BagIn(decisions[outcomes[k].id].event, returned)

(***************************************************************************)
(* C18 as stated: with SEND_EMAIL on and SMTP_USER, SMTP_PASS or           *)
(* ALERT_RECIPIENT missing, every send that finishes has failed, the       *)
(* ledger stays empty, every dispatch call for a threat event starts a     *)
(* send (none is suppressed), and every call that returned has its event   *)
(* in the list.                                                            *)
(***************************************************************************)
MailSettingsMissing ==
  SMTP_USER = "" \/ SMTP_PASS = "" \/ ALERT_RECIPIENT = ""

C18_MissingSettingsAlwaysAttempt ==
  (SEND_EMAIL /\ MailSettingsMissing) =>
    /\ \A k \in Out : ~outcomes[k].ok
    /\ DOMAIN last_email_sent = {}
    /\ \A j \in Dec : decisions[j].started
    /\ \A ev \in BagToSet(returned) : Stored(ev)

(***************************************************************************)
(* C19: the event is stored before its alert.  A handler about to call     *)
(* send_alert_email_async has its event in the list; the event of every    *)
(* dispatch call made and of every worker started is in the list and its   *)
(* is_threat is true, so both the full read and the filtered read show it. *)
(***************************************************************************)
StoredThreat(ev) ==
  /\ Stored(ev)
  /\ ev.is_threat
  /\ \E i \in DOMAIN ThreatsOf(events) : ThreatsOf(events)[i] = ev

C19_StoredBeforeAlert ==
  /\ \A h \in Handlers :
       handlers[h].pc \in {"alert", "decide", "return"}
         => Stored(handlers[h].ev)
  /\ \A j \in Dec : StoredThreat(decisions[j].event)
  /\ \A w \in workers : StoredThreat(w.event)

\* A worker is running for the one event of the list.
C19_Witness ==
  /\ Len(events) = 1
  /\ \E w \in workers : events[1] = w.event

(***************************************************************************)
(* C20 as stated: with a clock that does not run backwards, the instant    *)
(* recorded for an address never decreases, in whatever order the workers  *)
(* for it finish, and it is the time the send completed: not earlier than  *)
(* the dispatch call that started the send, nor than the timestamp of its  *)
(* event.                                                                  *)
(***************************************************************************)
RecordedCompletion(o) ==
  /\ o.after[o.ip] = o.at
  /\ o.at >= decisions[o.id].at
  /\ o.at >= decisions[o.id].event.timestamp
  /\ o.ip \in DOMAIN o.before => o.after[o.ip] >= o.before[o.ip]

C20_LedgerMonotone ==
  /\ \A k \in Out : outcomes[k].ok => RecordedCompletion(outcomes[k])
  /\ \A k, l \in Out :
       (k < l /\ outcomes[k].ok /\ outcomes[l].ok
          /\ outcomes[k].ip = outcomes[l].ip)
       => outcomes[k].after[outcomes[k].ip] <= outcomes[l].after[outcomes[l].ip]
  /\ \A a \in DOMAIN last_email_sent : last_email_sent[a] <= now

====
